---- MODULE Spec2Model ----
(***************************************************************************)
(* Model of the CodeSage broker: the newline-delimited JSON connection     *)
(* handler (broker/handlers.py), the codec (broker/utils.py) and the       *)
(* echo / llama.cpp backends behind the ModelManager                       *)
(* (broker/model_manager.py).                                              *)
(*                                                                         *)
(* One asyncio task per connection runs _handle_client; a task only gives  *)
(* up the event loop at an await, so each handler action below is the code *)
(* between two awaits.  The native backend runs its blocking work on       *)
(* worker threads, which interleave freely with the event loop and with    *)
(* each other; their steps are the accesses to shared state (_llama,       *)
(* _lock, the loop's callback queue).                                      *)
(***************************************************************************)
EXTENDS Integers, Sequences, FiniteSets, TLC

\* ---------------------------------------------------------------- bounds
\* Requests one connection sends before the peer stops.
MaxReqs == 2
\* Longest prompt a client sends.
MaxPromptLen == 2
\* Most chunks one native completion produces.
MaxTokens == 2

Conns == {1, 2}

\* Python's None, JSON null.
None == "None"

\* ------------------------------------------------------------- JSON data
\* A string is a sequence of characters; the i-th character clients type.
CharAt(i) == IF i % 2 = 1 THEN "a" ELSE "b"

Text(n) == [i \in 1..n |-> CharAt(i)]

Prompts == {Text(n) : n \in 0..MaxPromptLen}

\* The i-th text fragment the native model emits for a prompt (a fragment
\* may hold no character, or several).
NativeFragment(prompt, i) == IF i % 2 = 0 THEN <<"x">> \o prompt ELSE <<>>

\* The values a client gives a generation parameter.
ParamVals(k) == IF k = "stream" THEN {None, "true", "false"} ELSE {"8"}

\* The `params` objects clients send: every map from a subset of the keys
\* to their values.
ParamMaps ==
  UNION {{m \in [ks -> {None, "true", "false", "8"}] : \A k \in ks : m[k] \in ParamVals(k)}
         : ks \in SUBSET {"stream", "max_tokens"}}

\* dict.get(key, default)
Get(d, k, default) == IF k \in DOMAIN d THEN d[k] ELSE default

\* dict without key k (dict.pop on a copy)
Without(d, k) == [x \in (DOMAIN d) \ {k} |-> d[x]]

\* bool(v) for the JSON scalars null, true, false
Truthy(v) == v = "true"

\* "".join(fragments)
RECURSIVE Join(_)
Join(frags) == IF frags = <<>> THEN <<>> ELSE Head(frags) \o Join(Tail(frags))

\* --------------------------------------------------------------- lines
\* A received line, by what json.loads makes of it: bytes that are not
\* UTF-8, text that is not JSON, or a JSON value of some type (obj is the
\* mapping when the value is an object).
Line(kind, obj) == [kind |-> kind, obj |-> obj]

\* A field that is absent, or present with one of `vals`.
Opt(k, vals) == {<<>>} \cup {k :> x : x \in vals}

Absent == <<>>

\* Requests that route to the completion flow, over every combination of the
\* fields the flow reads.
CompletionObjects ==
  {t @@ p @@ ps @@ s : t \in Opt("type", {"completion"}),
                       p \in Opt("prompt", {Text(MaxPromptLen)}),
                       ps \in Opt("params", ParamMaps),
                       s \in Opt("stream", {None, "true", "false"})}

\* Every prompt, streamed and not.
PromptObjects ==
  {("prompt" :> p) @@ s : p \in Prompts, s \in Opt("stream", {"false"})}

OtherObjects ==
  Opt("type", {"ping", "bogus", None})
    \cup {("type" :> t) @@ ("prompt" :> Text(1)) @@ ("params" :> ("stream" :> "true"))
             @@ ("stream" :> "true") : t \in {"ping", "bogus"}}

NonObjectKinds == {"array", "string", "number", "bool", "null"}

WideLines == {Line(k, <<>>) : k \in {"bad_utf8", "bad_json"} \cup NonObjectKinds}
               \cup {Line("object", o) :
                       o \in CompletionObjects \cup PromptObjects \cup OtherObjects}

\* The lines sent when several connections run side by side.
NarrowLines ==
  {Line("bad_json", <<>>), Line("array", <<>>),
   Line("object", "type" :> "ping"),
   Line("object", "prompt" :> Text(MaxPromptLen)),
   Line("object", ("prompt" :> Text(MaxPromptLen)) @@ ("stream" :> "false"))}

\* A line only the second peer sends: a streamed completion for another
\* prompt than the first peer's.
SecondPeerLines == {Line("object", "prompt" :> Text(1))}

\* The lines the peer of connection c sends.
Lines(w, c) ==
  IF w THEN WideLines
  ELSE NarrowLines \cup (IF c = 2 THEN SecondPeerLines ELSE {})

\* --------------------------------------------------------------- codec
\* decode_message: bytes.decode raises UnicodeDecodeError, which the
\* function does not catch; json.loads raises JSONDecodeError, rethrown as
\* ValueError; any JSON value that parses is returned as it is.
decode_message(line) ==
  CASE line.kind = "bad_utf8" -> [exc |-> "UnicodeDecodeError", value |-> line]
    [] line.kind = "bad_json" -> [exc |-> "ValueError", value |-> line]
    [] OTHER -> [exc |-> "none", value |-> line]

\* Mutant of IsValueError: the handler catches the JSON error alone.
IsJsonError(exc) == exc = "ValueError"

\* Python's exception hierarchy: what `except ValueError` catches.
IsValueError(exc) == exc \in {"ValueError", "UnicodeDecodeError"}

\* ------------------------------------------------------- Python values
\* A Python value: t is its type, v the text of a scalar, kids the items of
\* a list or tuple or the entries of a dict in insertion order (an entry's
\* kids are its key and its value).
Py(t, v, kids) == [t |-> t, v |-> v, kids |-> kids]

PyStr(s) == Py("str", s, <<>>)

PyInt(digits) == Py("int", digits, <<>>)

PyTrue == Py("bool", "True", <<>>)

PyNone == Py("NoneType", None, <<>>)

Entry(k, x) == Py("entry", "", <<k, x>>)

PyDict(entries) == Py("dict", "", entries)

PyList(items) == Py("list", "", items)

PyTuple(items) == Py("tuple", "", items)

\* No value yet.
Nothing == Py("nothing", "", <<>>)

\* Most entries of a payload.
MaxEntries == 2

Scalars == {PyStr("a"), PyStr("2"), PyInt("2"), PyTrue, PyNone}

\* The keys json.dumps accepts: str, int, bool and None.
Keys == {PyStr("a"), PyStr("2"), PyInt("2"), PyTrue, PyNone}

\* Values one level down: scalars, short lists and tuples, one-entry dicts.
Nested ==
  Scalars \cup {PyList(<<>>), PyDict(<<>>)}
          \cup {PyList(<<x>>) : x \in Scalars} \cup {PyTuple(<<x>>) : x \in Scalars}
          \cup {PyDict(<<Entry(k, x)>>) : k \in Keys, x \in Scalars}

DistinctKeys(entries) ==
  \A i, j \in DOMAIN entries : i # j => entries[i].kids[1] # entries[j].kids[1]

\* The payloads handed to encode_message: dicts of one entry with a nested
\* value, and dicts of up to MaxEntries entries with scalar values.
Payloads ==
  {PyDict(<<Entry(k, x)>>) : k \in Keys, x \in Nested}
  \cup {PyDict(es) : es \in {e \in UNION {[1..n -> {Entry(k, x) : k \in Keys, x \in Scalars}]
                                             : n \in 0..MaxEntries} : DistinctKeys(e)}}

\* json.dumps writes a key that is not a str as the text of its value.
KeyText(k) ==
  CASE k.t = "str" -> k
    [] k.t = "bool" -> PyStr(IF k.v = "True" THEN "true" ELSE "false")
    [] k.t = "NoneType" -> PyStr("null")
    [] OTHER -> PyStr(k.v)

\* json.dumps: the JSON text, as the tree it spells; a tuple is written as
\* an array and every key as a string.
RECURSIVE Dumps(_)
Dumps(x) ==
  CASE x.t \in {"list", "tuple"} ->
         PyList([i \in DOMAIN x.kids |-> Dumps(x.kids[i])])
    [] x.t = "dict" ->
         PyDict([i \in DOMAIN x.kids |->
                   Entry(KeyText(x.kids[i].kids[1]), Dumps(x.kids[i].kids[2]))])
    [] OTHER -> x

\* d[k] = x on a dict's entries.
Put(entries, k, x) ==
  IF \E i \in DOMAIN entries : entries[i].kids[1] = k
  THEN [i \in DOMAIN entries |->
          IF entries[i].kids[1] = k THEN Entry(k, x) ELSE entries[i]]
  ELSE Append(entries, Entry(k, x))

\* json.loads: an object becomes a dict, a key written twice keeping its
\* last value; an array becomes a list.
RECURSIVE Loads(_)
RECURSIVE LoadEntries(_)
Loads(j) ==
  CASE j.t = "list" -> PyList([i \in DOMAIN j.kids |-> Loads(j.kids[i])])
    [] j.t = "dict" -> PyDict(LoadEntries(j.kids))
    [] OTHER -> j

LoadEntries(es) ==
  IF es = <<>> THEN <<>>
  ELSE LET e == es[Len(es)]
       IN  Put(LoadEntries(SubSeq(es, 1, Len(es) - 1)), e.kids[1], Loads(e.kids[2]))

\* Mutant of encode_message: entries whose value is None are left out.
EncodeSkipsNone(payload) ==
  Dumps(PyDict(SelectSeq(payload.kids, LAMBDA e : e.kids[2] # PyNone)))

\* encode_message: the text json.dumps writes (the separators, the newline
\* and the UTF-8 encoding change no value).
encode_message(payload) == Dumps(payload)

\* The line a peer receives for a text: what json.loads makes of it.
Received(text) == Line("object", Loads(text))

\* No payload in the codec.
NoCodec == [payload |-> Nothing, wire |-> Nothing, decoded |-> Nothing, step |-> 0]

\* --------------------------------------------------------------- messages
Pong == [type |-> "pong"]

ErrorMsg(m) == [type |-> "error", message |-> m]

TokenMsg(i, t) == [type |-> "token", index |-> i, token |-> t]

CompletionMsg(result) == [type |-> "completion", result |-> result]

\* -------------------------------------------------------------- dispatch
\* Mutant of Dispatch: every type but ping is taken for a completion.
DispatchLenient(value) ==
  IF value.kind # "object" THEN "AttributeError"
  ELSE IF Get(value.obj, "type", "completion") = "ping" THEN "pong"
  ELSE "completion"

\* Mutant of Dispatch: request.get("type") without its default.
DispatchNoDefault(value) ==
  IF value.kind # "object" THEN "AttributeError"
  ELSE LET kind == Get(value.obj, "type", None)
       IN  IF kind = "ping" THEN "pong"
           ELSE IF kind # "completion" THEN "unknown_request"
           ELSE "completion"

\* _process_request up to its first write: request.get raises
\* AttributeError on a value that is no dict.
Dispatch(value) ==
  IF value.kind # "object" THEN "AttributeError"
  ELSE LET kind == Get(value.obj, "type", "completion")
       IN  IF kind = "ping" THEN "pong"
           ELSE IF kind # "completion" THEN "unknown_request"
           ELSE "completion"

\* Mutant of HandleCompletion: line 88 is missing, so an explicit `stream`
\* leaves params.stream in place.
HandleCompletionKeepsAlias(request) ==
  LET prompt == Get(request, "prompt", <<>>)
      params == Get(request, "params", <<>>)
      stream_flag == Get(request, "stream", None)
  IN  IF stream_flag = None
      THEN [prompt |-> prompt, params |-> Without(params, "stream"),
            stream |-> Truthy(Get(params, "stream", "true"))]
      ELSE [prompt |-> prompt, params |-> params, stream |-> Truthy(stream_flag)]

\* _handle_completion, lines 81-88: the prompt, the params without their
\* `stream` key, and the effective stream flag.
HandleCompletion(request) ==
  LET prompt == Get(request, "prompt", <<>>)
      params == Get(request, "params", <<>>)
      stream_flag == Get(request, "stream", None)
  IN  IF stream_flag = None
      THEN [prompt |-> prompt, params |-> Without(params, "stream"),
            stream |-> Truthy(Get(params, "stream", "true"))]
      ELSE [prompt |-> prompt, params |-> Without(params, "stream"),
            stream |-> Truthy(stream_flag)]

\* ------------------------------------------------------------- backends
\* The file name of the model artifact (BROKER_MODEL_FILE's default).
ModelFile == "code-llama-7b.gguf"

\* Mutant of InitBackend: the model path is not looked at.
InitBackendNoPathCheck(requested, runtime, exists) ==
  IF requested = "llama"
  THEN IF ~runtime THEN "echo" ELSE "llama"
  ELSE "echo"

\* ModelManager._init_backend: the backend's name, from the requested name,
\* whether llama_cpp imported, and whether the model path exists.
InitBackend(requested, runtime, exists) ==
  IF requested = "llama"
  THEN IF ~runtime THEN "echo"
       ELSE IF ~exists THEN "echo"
       ELSE "llama"
  ELSE "echo"

\* ModelManager.__init__, line 143.
ModelName(backendName, file) ==
  IF backendName = "llama" THEN file ELSE backendName

\* str.lower() on the names given for a backend.
Lower(name) ==
  CASE name = "LLAMA" -> "llama"
    [] name = "Echo" -> "echo"
    [] OTHER -> name

\* The `backend` arguments callers pass (None and "" are falsy), the values
\* of BROKER_MODEL_BACKEND (None: unset), and the `model_path` arguments; a
\* path is stood for by its file name.
BackendArgs == {None, "", "llama", "LLAMA", "echo", "Echo", "other"}

BackendEnvs == {None, "llama", "echo"}

ModelPaths == {None, "custom.gguf"}

\* ModelManager.__init__, line 133.
requested_backend(cfg) ==
  Lower(IF cfg.backend \in {None, ""}
        THEN (IF cfg.env = None THEN "llama" ELSE cfg.env)
        ELSE cfg.backend)

\* ModelManager.__init__, lines 134-137: the path given, or the default
\* file of the models directory.
resolved_model(cfg) == IF cfg.model_path = None THEN ModelFile ELSE cfg.model_path

\* The inputs of one construction of the ModelManager.
Configs ==
  [backend : BackendArgs, env : BackendEnvs, model_path : ModelPaths,
   runtime : BOOLEAN, exists : BOOLEAN, done : {FALSE}]

\* The construction the running broker came from, its inputs not kept.
NoConfig ==
  [backend |-> None, env |-> None, model_path |-> None,
   runtime |-> FALSE, exists |-> FALSE, done |-> TRUE]

\* Mutant of EchoNext: the loop stops one character early.
EchoNextShort(prompt, idx) ==
  IF prompt = <<>> THEN [end |-> TRUE, index |-> 0, token |-> <<>>]
  ELSE IF idx < Len(prompt) - 1
       THEN [end |-> FALSE, index |-> idx, token |-> <<prompt[idx + 1]>>]
       ELSE [end |-> TRUE, index |-> 0, token |-> <<>>]

\* EchoBackend.stream_tokens resumed with its loop at index idx: the next
\* chunk, or the end of the iteration.
EchoNext(prompt, idx) ==
  IF prompt = <<>> THEN [end |-> TRUE, index |-> 0, token |-> <<>>]
  ELSE IF idx < Len(prompt)
       THEN [end |-> FALSE, index |-> idx, token |-> <<prompt[idx + 1]>>]
       ELSE [end |-> TRUE, index |-> 0, token |-> <<>>]

\* EchoBackend.generate
EchoGenerate(prompt) == prompt

VARIABLES
  listener,    \* BrokerServer._server and the tasks calling start()
  config,      \* the arguments and environment ModelManager is built from
  codec,       \* a payload on its way through encode_message / decode_message
  wide,        \* which lines the peers send (TRUE: WideLines)
  peers,       \* the connections the peers open
  budget,      \* per connection: the requests its peer sends before it stops
  backend,     \* ModelManager.backend.name
  model_name,  \* ModelManager.model_name
  conn,        \* per connection: the _handle_client task and its writer
  worker,      \* per connection: the worker thread of its native call
  queue,       \* per connection: the stream call's handoff queue
  llama,       \* LlamaBackend._llama: 0 is None, n the n-th instance built
  lock,        \* LlamaBackend._lock: 0 is free, c the holder
  loads,       \* Llama(...) constructions begun
  built        \* Llama(...) constructions that returned an instance

vars == <<listener, config, codec, wide, peers, budget, backend, model_name, conn, worker, queue, llama, lock, loads, built>>

NoCall == [prompt |-> <<>>, params |-> <<>>, stream |-> FALSE]

NoBackendCall == [fn |-> "none", prompt |-> <<>>, params |-> <<>>]

NoLine == Line("none", <<>>)

\* What is remembered of a line once its request is over: its kind and its
\* `type` field.
Slim(line) ==
  Line(line.kind, [k \in (DOMAIN line.obj) \cap {"type"} |-> line.obj[k]])

\* pc: new, read, drain, echo_generate, echo_stream, await_gen, await_chunk,
\* closed.  cont: where the handler goes once the drain returns.  killed:
\* the task has been cancelled.  closes: the writer.close() calls made.
NewConn ==
  [pc |-> "new", exit |-> "none", nreq |-> 0, req |-> NoLine, prev |-> NoLine,
   outcome |-> "none",
   call |-> NoCall, bcall |-> NoBackendCall, tokens |-> <<>>, gen |-> 0,
   resp |-> <<>>, wbuf |-> 0, cont |-> "read", killed |-> FALSE, closes |-> 0]

\* pc: idle, check1, lock, check2, loading, unlock, run, done.
IdleWorker ==
  [pc |-> "idle", kind |-> "none", prompt |-> <<>>, idx |-> 0, llm |-> 0,
   err |-> FALSE, out |-> <<>>]

\* ModelManager.format_result
format_result(prompt, params, output) ==
  [model |-> model_name, prompt |-> prompt, params |-> params, output |-> output]

\* Mutant of Write: the last message of a response is written and the
\* handler goes on without awaiting the drain.
WriteUndrained(s, msg, k) ==
  [s EXCEPT !.resp = Append(@, msg), !.wbuf = @ + 1,
            !.pc = IF k = "read" THEN "read" ELSE "drain", !.cont = k]

\* writer.write(encode_message(msg)) followed by `await writer.drain()`;
\* cont is the code after the drain.
Write(s, msg, k) ==
  [s EXCEPT !.resp = Append(@, msg), !.wbuf = @ + 1, !.pc = "drain", !.cont = k]

\* The handler leaves its loop: the finally clause closes the writer, and
\* the task's frames (the request, the tokens, the call) are gone.
\* Mutant of Close: the writer is closed after the loop, not in a finally
\* clause, so only the end of input closes it.
CloseAfterLoop(s, why) ==
  [NewConn EXCEPT !.pc = "closed", !.exit = why, !.nreq = s.nreq,
                  !.req = Slim(s.req), !.outcome = s.outcome,
                  !.killed = s.killed,
                  !.closes = IF why = "eof" THEN s.closes + 1 ELSE s.closes]

Close(s, why) ==
  [NewConn EXCEPT !.pc = "closed", !.exit = why, !.nreq = s.nreq,
                  !.req = Slim(s.req), !.outcome = s.outcome,
                  !.killed = s.killed, !.closes = s.closes + 1]

\* Mutant of Unwind: CancelledError is caught with the other exceptions.
UnwindSwallows(exc) == "exception"

\* _handle_client, lines 56-59: how the task ends for an exception raised
\* in its loop.  CancelledError is re-raised; any other is logged and the
\* task returns.
Unwind(exc) == IF exc = "CancelledError" THEN "cancelled" ELSE "exception"

\* Mutant of StreamTurn: the token is written but not appended to `tokens`.
StreamTurnNoAppend(s, item) ==
  IF item.end
  THEN Write(s, CompletionMsg(format_result(s.call.prompt, s.call.params,
                                            Join(s.tokens))), "read")
  ELSE Write(s, TokenMsg(item.index, item.token), "stream")

\* _stream_completion, one turn of its `async for`: a chunk is appended and
\* written as a token message; at the end the completion is written.
StreamTurn(s, item) ==
  IF item.end
  THEN Write(s, CompletionMsg(format_result(s.call.prompt, s.call.params,
                                            Join(s.tokens))), "read")
  ELSE Write([s EXCEPT !.tokens = Append(@, item.token)],
             TokenMsg(item.index, item.token), "stream")

\* The echo generator resumed: its next item, and its loop index moved on.
EchoTurn(s) ==
  StreamTurn([s EXCEPT !.gen = @ + 1], EchoNext(s.call.prompt, s.gen))

\* ------------------------------------------------------------- listener
\* The tasks that call BrokerServer.start().
Starters == {1, 2}

\* start() calls one task makes, one after the other.
MaxStarts == 2

\* pc: idle, binding (at `await asyncio.start_server`), done, raised.
IdleStarter == [pc |-> "idle", ret |-> 0, calls |-> 0]

\* server is self._server: 0 for None, n for the n-th server made.
NoListener ==
  [server |-> 0, created |-> 0, task |-> [k \in Starters |-> IdleStarter]]

\* The broker as main() runs it: one start() call, returned.
ListenerUp ==
  [server |-> 1, created |-> 1,
   task |-> [k \in Starters |->
               IF k = 1 THEN [pc |-> "done", ret |-> 1, calls |-> 1]
               ELSE IdleStarter]]

\* start(), lines 25-27: the server is returned when there is one;
\* otherwise the task awaits asyncio.start_server.
StartCall(k) ==
  /\ listener.task[k].pc \in {"idle", "done", "raised"}
  /\ listener.task[k].calls < MaxStarts
  /\ listener' =
       [listener EXCEPT !.task[k] =
          IF listener.server # 0
          THEN [pc |-> "done", ret |-> listener.server, calls |-> @.calls + 1]
          ELSE [pc |-> "binding", ret |-> 0, calls |-> @.calls + 1]]
  /\ UNCHANGED <<config, codec, wide, peers, budget, backend, model_name, conn, worker, queue, llama, lock, loads, built>>

\* start(), lines 27-31: asyncio.start_server returns a new listening
\* server, which is assigned to self._server and returned.
StartBound(k) ==
  /\ listener.task[k].pc = "binding"
  /\ listener' =
       [listener EXCEPT !.created = @ + 1, !.server = listener.created + 1,
                        !.task[k].pc = "done",
                        !.task[k].ret = listener.created + 1]
  /\ UNCHANGED <<config, codec, wide, peers, budget, backend, model_name, conn, worker, queue, llama, lock, loads, built>>

\* start(), line 27: asyncio.start_server raises OSError, the address
\* being held by a server this broker made already.
StartBindFail(k) ==
  /\ listener.task[k].pc = "binding"
  /\ listener.created > 0
  /\ listener' = [listener EXCEPT !.task[k].pc = "raised"]
  /\ UNCHANGED <<config, codec, wide, peers, budget, backend, model_name, conn, worker, queue, llama, lock, loads, built>>

\* ---------------------------------------------------------------- init
Boot ==
  /\ \E requested \in {"llama", "echo", "other"}, runtime, exists \in BOOLEAN :
       /\ backend = InitBackend(requested, runtime, exists)
       /\ model_name = ModelName(backend, ModelFile)
  /\ conn = [c \in Conns |-> NewConn]
  /\ worker = [c \in Conns |-> IdleWorker]
  /\ queue = [c \in Conns |-> <<>>]
  /\ llama = 0
  /\ lock = 0
  /\ loads = 0
  /\ built = 0

\* ------------------------------------------------------ connection task
\* The listener accepts a connection and starts its _handle_client task.
Accept(c) ==
  /\ listener.server # 0
  /\ c \in peers
  /\ conn[c].pc = "new"
  /\ conn' = [conn EXCEPT ![c].pc = "read"]
  /\ UNCHANGED <<listener, config, codec, wide, peers, budget, backend, model_name, worker, queue, llama, lock, loads, built>>

\* readline returns b"": the loop breaks.
ReadEOF(c) ==
  /\ conn[c].pc = "read"
  /\ conn' = [conn EXCEPT ![c] = Close(@, "eof")]
  /\ UNCHANGED <<listener, config, codec, wide, peers, budget, backend, model_name, worker, queue, llama, lock, loads, built>>

\* _handle_completion from line 90: the backend call it makes and the await
\* it stops at.
StartCompletion(s, h) ==
  LET fn == IF h.stream THEN "stream_tokens" ELSE "generate"
      at == IF backend = "echo"
            THEN (IF h.stream THEN "echo_stream" ELSE "echo_generate")
            ELSE (IF h.stream THEN "await_chunk" ELSE "await_gen")
  IN  [s EXCEPT !.call = h, !.pc = at,
                !.bcall = [fn |-> fn, prompt |-> h.prompt, params |-> h.params]]

\* The body of the read loop for one line, up to its first await: decode,
\* then _process_request.
HandleLine(s, line) ==
  LET d == decode_message(line)
      s0 == [s EXCEPT !.nreq = @ + 1, !.req = line, !.prev = Slim(s.req),
                      !.resp = <<>>,
                      !.tokens = <<>>, !.gen = 0, !.call = NoCall,
                      !.bcall = NoBackendCall, !.outcome = "none"]
  IN  IF d.exc # "none"
      THEN IF IsValueError(d.exc)
           THEN Write([s0 EXCEPT !.outcome = "invalid_json"],
                      ErrorMsg("invalid_json"), "read")
           ELSE Close([s0 EXCEPT !.outcome = d.exc], Unwind(d.exc))
      ELSE LET o == Dispatch(d.value)
               s1 == [s0 EXCEPT !.outcome = o]
           IN  CASE o = "pong" -> Write(s1, Pong, "read")
                 [] o = "unknown_request" ->
                      Write(s1, ErrorMsg("unknown_request"), "read")
                 [] o = "completion" ->
                      StartCompletion(s1, HandleCompletion(d.value.obj))
                 [] OTHER -> Close(s1, Unwind(o))

\* LlamaBackend.generate / stream_tokens start a thread for the call.
StartWorker(s) ==
  [IdleWorker EXCEPT !.pc = "check1", !.prompt = s.call.prompt,
                     !.kind = IF s.call.stream THEN "stream" ELSE "gen"]

ReadLine(c, line) ==
  /\ conn[c].pc = "read"
  /\ conn[c].nreq < budget[c]
  /\ LET s == HandleLine(conn[c], line)
     IN  /\ conn' = [conn EXCEPT ![c] = s]
         /\ IF s.pc \in {"await_chunk", "await_gen"}
            THEN /\ worker' = [worker EXCEPT ![c] = StartWorker(s)]
                 /\ queue' = [queue EXCEPT ![c] = <<>>]
            ELSE UNCHANGED <<worker, queue>>
  /\ UNCHANGED <<listener, config, codec, wide, peers, budget, backend, model_name, llama, lock, loads, built>>

\* `await writer.drain()` returns; the handler runs on to its next await.
AfterDrain(s) ==
  LET t == [s EXCEPT !.wbuf = 0]
  IN  IF t.cont = "read" THEN [t EXCEPT !.pc = "read"]
      ELSE IF backend = "echo" THEN EchoTurn(t)
      ELSE [t EXCEPT !.pc = "await_chunk"]

\* Mutant of Drain: the flush blocks the loop, so one connection's flush
\* waits for every other connection's flush to be over.
DrainBlocking(c) ==
  /\ conn[c].pc = "drain"
  /\ \A d \in Conns \ {c} : conn[d].pc # "drain"
  /\ conn' = [conn EXCEPT ![c] = AfterDrain(@)]
  /\ UNCHANGED <<listener, config, codec, wide, peers, budget, backend, model_name, worker, queue, llama, lock, loads, built>>

Drain(c) ==
  /\ conn[c].pc = "drain"
  /\ conn' = [conn EXCEPT ![c] = AfterDrain(@)]
  /\ UNCHANGED <<listener, config, codec, wide, peers, budget, backend, model_name, worker, queue, llama, lock, loads, built>>

\* EchoBackend.stream_tokens after its asyncio.sleep(0).
EchoStream(c) ==
  /\ conn[c].pc = "echo_stream"
  /\ conn' = [conn EXCEPT ![c] = EchoTurn(@)]
  /\ UNCHANGED <<listener, config, codec, wide, peers, budget, backend, model_name, worker, queue, llama, lock, loads, built>>

\* ModelManager.generate with the echo backend, after its asyncio.sleep(0),
\* and the write of the completion (_handle_completion, lines 93-95).
GenerateResult(s, output) ==
  Write(s, CompletionMsg(format_result(s.call.prompt, s.bcall.params, output)),
        "read")

EchoGenerated(c) ==
  /\ conn[c].pc = "echo_generate"
  /\ conn' = [conn EXCEPT ![c] = GenerateResult(@, EchoGenerate(@.call.prompt))]
  /\ UNCHANGED <<listener, config, codec, wide, peers, budget, backend, model_name, worker, queue, llama, lock, loads, built>>

\* -------------------------------------------------------- worker thread
\* The end-of-stream sentinel (None) and a chunk, as queue items.
Sentinel == [end |-> TRUE, index |-> 0, token |-> <<>>]

Chunk(i, t) == [end |-> FALSE, index |-> i, token |-> t]

\* The worker's call raises.  A stream's producer pushes the sentinel in
\* its finally clause and the thread dies with the exception; to_thread
\* hands the exception to the awaiting task.
Raised(w) == [IdleWorker EXCEPT !.pc = "done", !.kind = w.kind, !.err = TRUE]

\* The worker's call returns `out`.
Returned(w, out) == [IdleWorker EXCEPT !.pc = "done", !.kind = w.kind, !.out = out]

\* Mutant of PushOnExit: a producer that fails pushes no sentinel.
PushOnlyOnSuccess(c, w) == queue[c]

\* producer's finally clause, on the paths that raise.
PushOnExit(c, w) == IF w.kind = "stream" THEN Append(queue[c], Sentinel) ELSE queue[c]

\* _ensure_model, line 91: the unlocked check.
EnsureCheck(c) ==
  /\ worker[c].pc = "check1"
  /\ worker' = [worker EXCEPT ![c] =
                  IF llama = 0 THEN [@ EXCEPT !.pc = "lock"]
                  ELSE [@ EXCEPT !.pc = "run", !.llm = llama]]
  /\ UNCHANGED <<listener, config, codec, wide, peers, budget, backend, model_name, conn, queue, llama, lock, loads, built>>

\* line 92: `with self._lock` blocks until the lock is free.
EnsureAcquire(c) ==
  /\ worker[c].pc = "lock"
  /\ lock = 0
  /\ lock' = c
  /\ worker' = [worker EXCEPT ![c].pc = "check2"]
  /\ UNCHANGED <<listener, config, codec, wide, peers, budget, backend, model_name, conn, queue, llama, loads, built>>

\* Mutant of EnsureRecheck: the handle is not checked again under the lock.
EnsureNoRecheck(c) ==
  /\ worker[c].pc = "check2"
  /\ loads' = loads + 1
  /\ worker' = [worker EXCEPT ![c].pc = "loading"]
  /\ UNCHANGED <<listener, config, codec, wide, peers, budget, backend, model_name, conn, queue, llama, lock, built>>

\* line 93: the check under the lock; the Llama(...) construction begins
\* when the handle is still unset.
EnsureRecheck(c) ==
  /\ worker[c].pc = "check2"
  /\ IF llama = 0
     THEN /\ loads' = loads + 1
          /\ worker' = [worker EXCEPT ![c].pc = "loading"]
     ELSE /\ worker' = [worker EXCEPT ![c].pc = "unlock"]
          /\ UNCHANGED loads
  /\ UNCHANGED <<listener, config, codec, wide, peers, budget, backend, model_name, conn, queue, llama, lock, built>>

\* line 95: the construction returns and the handle is assigned.
LoadDone(c) ==
  /\ worker[c].pc = "loading"
  /\ llama' = loads
  /\ built' = built + 1
  /\ worker' = [worker EXCEPT ![c].pc = "unlock"]
  /\ UNCHANGED <<listener, config, codec, wide, peers, budget, backend, model_name, conn, queue, lock, loads>>

\* line 95: the construction raises; the with block releases the lock and
\* the handle stays unset.
LoadFail(c) ==
  /\ worker[c].pc = "loading"
  /\ lock' = 0
  /\ worker' = [worker EXCEPT ![c] = Raised(@)]
  /\ queue' = [queue EXCEPT ![c] = PushOnExit(c, worker[c])]
  /\ UNCHANGED <<listener, config, codec, wide, peers, budget, backend, model_name, conn, llama, loads, built>>

\* lines 92 and 101: the lock is released and self._llama returned.
EnsureRelease(c) ==
  /\ worker[c].pc = "unlock"
  /\ lock' = 0
  /\ worker' = [worker EXCEPT ![c].pc = "run", ![c].llm = llama]
  /\ UNCHANGED <<listener, config, codec, wide, peers, budget, backend, model_name, conn, queue, llama, loads, built>>

\* _stream_sync yields its next chunk, which producer hands to the loop.
Produce(c) ==
  /\ worker[c].pc = "run"
  /\ worker[c].kind = "stream"
  /\ worker[c].idx < MaxTokens
  /\ queue' = [queue EXCEPT ![c] = Append(@, Chunk(worker[c].idx,
                                       NativeFragment(worker[c].prompt, worker[c].idx)))]
  /\ worker' = [worker EXCEPT ![c].idx = @ + 1]
  /\ UNCHANGED <<listener, config, codec, wide, peers, budget, backend, model_name, conn, llama, lock, loads, built>>

\* The completion is exhausted: producer's finally pushes the sentinel.
ProduceEnd(c) ==
  /\ worker[c].pc = "run"
  /\ worker[c].kind = "stream"
  /\ queue' = [queue EXCEPT ![c] = Append(@, Sentinel)]
  /\ worker' = [worker EXCEPT ![c] = Returned(@, <<>>)]
  /\ UNCHANGED <<listener, config, codec, wide, peers, budget, backend, model_name, conn, llama, lock, loads, built>>

\* create_completion raises, in either kind of call.
BackendFail(c) ==
  /\ worker[c].pc = "run"
  /\ worker' = [worker EXCEPT ![c] = Raised(@)]
  /\ queue' = [queue EXCEPT ![c] = PushOnExit(c, worker[c])]
  /\ UNCHANGED <<listener, config, codec, wide, peers, budget, backend, model_name, conn, llama, lock, loads, built>>

\* _generate_sync returns the completion's text.
Generated(c, text) ==
  /\ worker[c].pc = "run"
  /\ worker[c].kind = "gen"
  /\ worker' = [worker EXCEPT ![c] = Returned(@, text)]
  /\ UNCHANGED <<listener, config, codec, wide, peers, budget, backend, model_name, conn, queue, llama, lock, loads, built>>

\* ------------------------------------------- connection task, native calls
\* Mutant of QueueGet: the calls share one queue, and a consumer takes the
\* next item of any of them.
QueueGetShared(c) ==
  /\ conn[c].pc = "await_chunk"
  /\ \E d \in Conns :
       /\ queue[d] # <<>>
       /\ conn' = [conn EXCEPT ![c] = StreamTurn(@, Head(queue[d]))]
       /\ queue' = [queue EXCEPT ![d] = Tail(@)]
  /\ UNCHANGED <<listener, config, codec, wide, peers, budget, backend, model_name, worker, llama, lock, loads, built>>

\* LlamaBackend.stream_tokens, lines 84-88: `await queue.get()` returns an
\* item; the sentinel ends the iteration.
QueueGet(c) ==
  /\ conn[c].pc = "await_chunk"
  /\ queue[c] # <<>>
  /\ conn' = [conn EXCEPT ![c] = StreamTurn(@, Head(queue[c]))]
  /\ queue' = [queue EXCEPT ![c] = Tail(@)]
  /\ UNCHANGED <<listener, config, codec, wide, peers, budget, backend, model_name, worker, llama, lock, loads, built>>

\* LlamaBackend.generate: asyncio.to_thread returns the worker's result or
\* raises its exception, which leaves _handle_client through `except
\* Exception`.
AfterToThread(s, w) ==
  IF w.err THEN Close(s, Unwind("Exception")) ELSE GenerateResult(s, w.out)

GenDone(c) ==
  /\ conn[c].pc = "await_gen"
  /\ worker[c].pc = "done"
  /\ conn' = [conn EXCEPT ![c] = AfterToThread(@, worker[c])]
  /\ UNCHANGED <<listener, config, codec, wide, peers, budget, backend, model_name, worker, queue, llama, lock, loads, built>>

\* The awaits of a connection's task.
Suspended == {"read", "drain", "echo_generate", "echo_stream", "await_gen", "await_chunk"}

\* The task is cancelled at an await: CancelledError is re-raised and the
\* finally clause closes the writer.
Cancel(c) ==
  /\ conn[c].pc \in Suspended
  /\ conn' = [conn EXCEPT ![c] = Close([@ EXCEPT !.killed = TRUE],
                                        Unwind("CancelledError"))]
  /\ UNCHANGED <<listener, config, codec, wide, peers, budget, backend, model_name, worker, queue, llama, lock, loads, built>>

\* ------------------------------------------------- construction, codec
\* ModelManager.__init__: the backend is resolved and the model named.
Construct ==
  /\ ~config.done
  /\ backend' = InitBackend(requested_backend(config), config.runtime, config.exists)
  /\ model_name' = ModelName(backend', resolved_model(config))
  /\ config' = [config EXCEPT !.done = TRUE]
  /\ UNCHANGED <<listener, codec, wide, peers, budget, conn, worker, queue, llama, lock, loads, built>>

\* A payload is encoded for the wire.
Encode ==
  /\ codec.step = 0
  /\ codec' = [codec EXCEPT !.wire = encode_message(codec.payload), !.step = 1]
  /\ UNCHANGED <<listener, config, wide, peers, budget, backend, model_name, conn, worker, queue, llama, lock, loads, built>>

\* The peer decodes the line it received.
Decode ==
  /\ codec.step = 1
  /\ LET d == decode_message(Received(codec.wire))
     IN  codec' = [codec EXCEPT !.decoded = d.value.obj, !.step = 2]
  /\ UNCHANGED <<listener, config, wide, peers, budget, backend, model_name, conn, worker, queue, llama, lock, loads, built>>

\* ----------------------------------------------------------------- spec
\* The texts a one-shot native completion returns.
NativeOutputs == {<<>>, <<"x", "y">>}

Next ==
  \E c \in Conns :
    \/ Accept(c)
    \/ ReadEOF(c)
    \/ \E line \in Lines(wide, c) : ReadLine(c, line)
    \/ Drain(c)
    \/ EchoStream(c)
    \/ EchoGenerated(c)
    \/ QueueGet(c)
    \/ GenDone(c)
    \/ Cancel(c)
    \/ EnsureCheck(c)
    \/ EnsureAcquire(c)
    \/ EnsureRecheck(c)
    \/ LoadDone(c)
    \/ LoadFail(c)
    \/ EnsureRelease(c)
    \/ Produce(c)
    \/ ProduceEnd(c)
    \/ BackendFail(c)
    \/ \E text \in NativeOutputs : Generated(c, text)

\* Two connections side by side, sending the narrow set of lines.
Init ==
  /\ Boot
  /\ listener = ListenerUp
  /\ config = NoConfig
  /\ codec = NoCodec
  /\ wide = FALSE
  /\ peers = Conns
  /\ budget = [c \in Conns |-> IF c = 1 THEN MaxReqs ELSE 1]

Spec == Init /\ [][Next]_vars

\* Two connections side by side, each peer sending one request.
InitLive ==
  /\ Boot
  /\ listener = ListenerUp
  /\ config = NoConfig
  /\ codec = NoCodec
  /\ wide = FALSE
  /\ peers = Conns
  /\ budget = [c \in Conns |-> 1]

\* The steps connection c's task takes when the event loop resumes it: an
\* await of its own (a flush, a sleep(0), a queue item, a thread's result)
\* is over.
HandlerStep(c) ==
  Drain(c) \/ EchoStream(c) \/ EchoGenerated(c) \/ QueueGet(c) \/ GenDone(c)

\* The steps of connection c's worker thread.
WorkerStep(c) ==
  \/ EnsureCheck(c) \/ EnsureAcquire(c) \/ EnsureRecheck(c)
  \/ LoadDone(c) \/ LoadFail(c) \/ EnsureRelease(c)
  \/ Produce(c) \/ ProduceEnd(c) \/ BackendFail(c)
  \/ \E text \in NativeOutputs : Generated(c, text)

\* The event loop runs every ready task and the threads run on their own:
\* connection 1 is resumed whenever one of its awaits is over, and every
\* worker thread keeps running.  Connection 2 may stay suspended at any of
\* its awaits for ever (its peer neither sends nor reads).
SpecLive ==
  /\ InitLive
  /\ [][Next]_vars
  /\ WF_vars(HandlerStep(1))
  /\ \A c \in Conns : WF_vars(WorkerStep(c))

\* Every connection is resumed whenever one of its awaits is over.
SpecFair ==
  /\ InitLive
  /\ [][Next]_vars
  /\ \A c \in Conns : WF_vars(HandlerStep(c)) /\ WF_vars(WorkerStep(c))

\* One connection sending every kind of line.
InitProtocol ==
  /\ Boot
  /\ listener = ListenerUp
  /\ config = NoConfig
  /\ codec = NoCodec
  /\ wide = TRUE
  /\ peers = {1}
  /\ budget = [c \in Conns |-> MaxReqs]

SpecProtocol == InitProtocol /\ [][Next]_vars

\* The broker starting: tasks call start() while peers connect and leave.
NextListener ==
  \/ \E k \in Starters : StartCall(k) \/ StartBound(k) \/ StartBindFail(k)
  \/ \E c \in Conns : Accept(c) \/ ReadEOF(c) \/ Cancel(c)

InitListener ==
  /\ Boot
  /\ listener = NoListener
  /\ config = NoConfig
  /\ codec = NoCodec
  /\ wide = FALSE
  /\ peers = Conns
  /\ budget = [c \in Conns |-> 0]

SpecListener == InitListener /\ [][NextListener]_vars

\* One construction of the ModelManager, from every configuration.
InitResolve ==
  /\ config \in Configs
  /\ backend = None
  /\ model_name = None
  /\ listener = NoListener
  /\ codec = NoCodec
  /\ wide = FALSE
  /\ peers = {}
  /\ budget = [c \in Conns |-> 0]
  /\ conn = [c \in Conns |-> NewConn]
  /\ worker = [c \in Conns |-> IdleWorker]
  /\ queue = [c \in Conns |-> <<>>]
  /\ llama = 0
  /\ lock = 0
  /\ loads = 0
  /\ built = 0

SpecResolve == InitResolve /\ [][Construct]_vars

\* One payload encoded and decoded, for every payload.
NextCodec == Encode \/ Decode

InitCodec ==
  /\ Boot
  /\ codec \in {[NoCodec EXCEPT !.payload = m] : m \in Payloads}
  /\ listener = NoListener
  /\ config = NoConfig
  /\ wide = FALSE
  /\ peers = {}
  /\ budget = [c \in Conns |-> 0]

SpecCodec == InitCodec /\ [][NextCodec]_vars

\* ================================================================ claims
Last(seq) == seq[Len(seq)]

\* The request a connection is serving is a completion served as a stream.
Streaming(s) == s.outcome = "completion" /\ s.bcall.fn = "stream_tokens"

\* The handler has written the whole response of its request and is back
\* at (or on its way to) the read.
Answered(s) == s.pc = "read" \/ (s.pc = "drain" /\ s.cont = "read")

\* The fragments of the token messages before position n of a response.
Fragments(resp, n) == [j \in 1..n |-> resp[j].token]

\* C1: the messages written for a streamed completion are token messages
\* with the indices 0, 1, ..., n-1 in that order, then exactly one completion
\* message, whose output is the concatenation of the n fragments; nothing
\* follows the completion message.
C1_StreamShape ==
  \A c \in Conns :
    LET s == conn[c] IN
    Streaming(s) /\ s.pc # "closed" =>
      /\ \A i \in 1..Len(s.resp) :
           IF s.resp[i].type = "token"
           THEN s.resp[i].index = i - 1
           ELSE /\ s.resp[i].type = "completion"
                /\ i = Len(s.resp)
                /\ s.resp[i].result.output = Join(Fragments(s.resp, i - 1))
      /\ Answered(s) <=> (s.resp # <<>> /\ Last(s.resp).type = "completion")

\* C1 witness: a native stream of two chunks has ended with its completion.
C1_Witness ==
  \E c \in Conns :
    /\ backend = "llama"
    /\ Streaming(conn[c])
    /\ Len(conn[c].resp) = 3
    /\ Last(conn[c].resp).type = "completion"
    /\ Last(conn[c].resp).result.output # <<>>

\* The response of a request is whole: the one message of a ping, an
\* unknown type or a bad line, or a completion message closing the tokens.
Complete(s) ==
  /\ s.resp # <<>>
  /\ Last(s.resp).type \in {"pong", "error", "completion"}
  /\ \A i \in 1..(Len(s.resp) - 1) : s.resp[i].type = "token"

\* C2: a connection reads its next line only when every message of the
\* request before it is written and drained: at the read nothing is
\* undrained and the response of the last request is whole, and a write is
\* always drained before the next one.
C2_Sequential ==
  \A c \in Conns :
    LET s == conn[c] IN
    /\ s.wbuf <= 1
    /\ s.pc = "read" => s.wbuf = 0 /\ (s.nreq > 0 => Complete(s))
    /\ s.pc \notin {"read", "drain", "new", "closed"} => s.wbuf = 0

\* C2 witness: a second request is being answered after a first one.
C2_Witness ==
  \E c \in Conns : conn[c].nreq = 2 /\ conn[c].pc = "drain" /\ conn[c].wbuf = 1

\* C3 as stated: the model load executes at most once.
C3_LoadsOnce == loads <= 1

\* C3, amended: at most one load runs at a time, none runs once the handle
\* is set, at most one ever returns an instance, and every caller that
\* returns from _ensure_model holds that instance.
C3_SingleInstance ==
  /\ Cardinality({c \in Conns : worker[c].pc = "loading"}) <= 1
  /\ llama # 0 => \A c \in Conns : worker[c].pc # "loading"
  /\ built <= 1
  /\ (llama # 0) <=> (built = 1)
  /\ \A c \in Conns : worker[c].pc = "run" => worker[c].llm # 0 /\ worker[c].llm = llama

\* C3 witness: one caller has loaded the model while another, which saw the
\* handle unset, waits for the lock.
C3_Witness ==
  \E c, d \in Conns :
    /\ worker[c].pc = "unlock"
    /\ worker[d].pc = "lock"
    /\ llama # 0

\* The line is not valid UTF-8 JSON.
BadLine(line) == line.kind \in {"bad_utf8", "bad_json"}

PingLine == Line("object", "type" :> "ping")

\* The connection was closed by its peer or by cancellation, not by the
\* handler giving up.
ClosedFromOutside(s) == s.exit \in {"eof", "cancelled"}

\* C4: a line that is not valid UTF-8 JSON gets exactly one invalid_json
\* error and no backend call, the handler goes back to reading rather than
\* closing, and a ping that follows such a line gets its pong.
C4_InvalidJson ==
  \A c \in Conns :
    LET s == conn[c] IN
    /\ BadLine(s.req) /\ s.pc = "closed" => ClosedFromOutside(s)
    /\ BadLine(s.req) /\ s.pc # "closed" =>
         /\ s.resp = <<ErrorMsg("invalid_json")>>
         /\ Answered(s)
         /\ s.bcall.fn = "none"
    /\ BadLine(s.prev) /\ s.req = PingLine /\ s.pc # "closed" =>
         s.resp = <<Pong>> /\ Answered(s)

\* C4 witness: a ping sent after a line that is not UTF-8 has been answered.
C4_Witness ==
  \E c \in Conns :
    /\ conn[c].prev.kind = "bad_utf8"
    /\ conn[c].req = PingLine
    /\ conn[c].resp = <<Pong>>
    /\ conn[c].pc = "read"

\* C5 as stated: a line holding a JSON value that is no object is answered
\* as a protocol error (invalid_json) and does not end the connection.
C5_NonObjectRejected ==
  \A c \in Conns :
    conn[c].req.kind \in NonObjectKinds =>
      /\ conn[c].outcome = "invalid_json"
      /\ conn[c].pc = "closed" => ClosedFromOutside(conn[c])

\* The request has a `type` that is neither ping nor completion.
UnknownType(line) ==
  /\ line.kind = "object"
  /\ "type" \in DOMAIN line.obj
  /\ line.obj["type"] \notin {"ping", "completion"}

\* C6: a request whose type is present and neither ping nor completion gets
\* exactly one unknown_request error, no backend call is made for it, the
\* handler does not close the connection, and a request after it is
\* answered as usual.
C6_UnknownRequest ==
  \A c \in Conns :
    LET s == conn[c] IN
    /\ UnknownType(s.req) /\ s.pc = "closed" => ClosedFromOutside(s)
    /\ UnknownType(s.req) /\ s.pc # "closed" =>
         /\ s.resp = <<ErrorMsg("unknown_request")>>
         /\ Answered(s)
         /\ s.bcall.fn = "none"
         /\ worker[c].pc \in {"idle", "done"}
    /\ UnknownType(s.prev) /\ s.req = PingLine /\ s.pc # "closed" =>
         s.resp = <<Pong>> /\ Answered(s)

\* C6 witness: a ping sent after a request of type bogus has been answered.
C6_Witness ==
  \E c \in Conns :
    /\ UnknownType(conn[c].prev)
    /\ conn[c].prev.obj["type"] = "bogus"
    /\ conn[c].req = PingLine
    /\ conn[c].resp = <<Pong>>
    /\ conn[c].pc = "read"

\* C7 as stated: once the backend call of a request has failed and the
\* handler has taken in all the call handed over, the connection is closed.
C7_BackendFailureCloses ==
  \A c \in Conns :
    /\ worker[c].err
    /\ queue[c] = <<>>
    /\ conn[c].pc \notin {"await_chunk", "await_gen"}
    => conn[c].pc = "closed"

\* The stream mode C8 states: the top-level field when present, else
\* params.stream when present, else true.
StreamAsStated(request) ==
  LET params == Get(request, "params", <<>>)
  IN  IF "stream" \in DOMAIN request THEN Truthy(request["stream"])
      ELSE IF "stream" \in DOMAIN params THEN Truthy(params["stream"])
      ELSE TRUE

\* The same, a null top-level field counting as absent.
StreamAmended(request) ==
  LET params == Get(request, "params", <<>>)
  IN  IF "stream" \in DOMAIN request /\ request["stream"] # None
      THEN Truthy(request["stream"])
      ELSE IF "stream" \in DOMAIN params THEN Truthy(params["stream"])
      ELSE TRUE

\* The params handed to the backend are the request's without `stream`, and
\* no envelope written holds a `stream` parameter.
ParamsStripped(s) ==
  /\ s.bcall.params = Without(Get(s.req.obj, "params", <<>>), "stream")
  /\ "stream" \notin DOMAIN s.bcall.params
  /\ \A i \in 1..Len(s.resp) :
       s.resp[i].type = "completion" => "stream" \notin DOMAIN s.resp[i].result.params

InCompletion(s) == s.outcome = "completion" /\ s.pc # "closed"

\* C8 as stated.
C8_StreamAsStated ==
  \A c \in Conns :
    InCompletion(conn[c]) =>
      /\ (conn[c].bcall.fn = "stream_tokens") = StreamAsStated(conn[c].req.obj)
      /\ ParamsStripped(conn[c])

\* C8, amended: the request is streamed when its top-level `stream` is
\* present, not null and true; when that field is absent or null, when
\* params.stream is true or absent; `stream` is never among the params the
\* backend or the envelope gets.
C8_EffectiveStream ==
  \A c \in Conns :
    InCompletion(conn[c]) =>
      /\ conn[c].bcall.fn \in {"stream_tokens", "generate"}
      /\ (conn[c].bcall.fn = "stream_tokens") = StreamAmended(conn[c].req.obj)
      /\ ParamsStripped(conn[c])

\* C8 witness: a request with a null top-level stream and params.stream
\* false was answered in one shot, its envelope written.
C8_Witness ==
  \E c \in Conns :
    LET s == conn[c] IN
    /\ InCompletion(s)
    /\ "stream" \in DOMAIN s.req.obj
    /\ s.req.obj["stream"] = None
    /\ "params" \in DOMAIN s.req.obj
    /\ Get(s.req.obj["params"], "stream", None) = "false"
    /\ s.bcall.fn = "generate"
    /\ s.resp # <<>>
    /\ Last(s.resp).type = "completion"

\* C9: every request (a JSON object) gets exactly one of three outcomes: a
\* single pong and no backend call for type ping; the completion flow, with
\* its backend call and neither pong nor error, for type completion or no
\* type; a single unknown_request error for any other type.
C9_DispatchTotal ==
  \A c \in Conns :
    LET s == conn[c]
        o == s.req.obj
    IN  s.req.kind = "object" /\ s.pc # "closed" =>
          /\ s.outcome \in {"pong", "unknown_request", "completion"}
          /\ ("type" \in DOMAIN o /\ o["type"] = "ping") =>
               s.outcome = "pong" /\ s.resp = <<Pong>> /\ s.bcall.fn = "none"
          /\ ("type" \notin DOMAIN o \/ o["type"] = "completion") =>
               /\ s.outcome = "completion"
               /\ s.bcall.fn # "none"
               /\ \A i \in 1..Len(s.resp) : s.resp[i].type \in {"token", "completion"}
          /\ UnknownType(s.req) =>
               /\ s.outcome = "unknown_request"
               /\ s.resp = <<ErrorMsg("unknown_request")>>
               /\ s.bcall.fn = "none"

\* C9 witness: a request without a type has run the completion flow to its
\* completion message.
C9_Witness ==
  \E c \in Conns :
    /\ conn[c].req.kind = "object"
    /\ "type" \notin DOMAIN conn[c].req.obj
    /\ conn[c].outcome = "completion"
    /\ conn[c].resp # <<>>
    /\ Last(conn[c].resp).type = "completion"

\* The envelope the echo backend answers a request with, whatever the mode.
EchoEnvelope(request) ==
  [model |-> "echo", prompt |-> Get(request, "prompt", <<>>),
   params |-> Without(Get(request, "params", <<>>), "stream"),
   output |-> Get(request, "prompt", <<>>)]

\* C10: with the echo backend a one-shot completion is answered by one
\* message, whose envelope has the prompt as output and echo as model; a
\* streamed one by a token per character of the prompt, indexed from 0 in
\* order (none for the empty prompt), and then the same envelope.
C10_Echo ==
  \A c \in Conns :
    LET s == conn[c]
        p == Get(s.req.obj, "prompt", <<>>)
    IN  backend = "echo" /\ InCompletion(s) =>
          /\ \A i \in 1..Len(s.resp) :
               s.resp[i].type = "token" =>
                 i <= Len(p) /\ s.resp[i] = TokenMsg(i - 1, <<p[i]>>)
          /\ Answered(s) =>
               /\ Last(s.resp).type = "completion"
               /\ Last(s.resp).result = EchoEnvelope(s.req.obj)
               /\ Len(s.resp) = IF Streaming(s) THEN Len(p) + 1 ELSE 1

\* C10 witness: the echo backend has streamed a prompt of two characters.
C10_Witness ==
  \E c \in Conns :
    /\ backend = "echo"
    /\ Streaming(conn[c])
    /\ Len(conn[c].resp) = 3
    /\ Last(conn[c].resp).type = "completion"
    /\ conn[c].pc = "read"

\* The i-th fragment, from 0, that the backend yields for the prompt of
\* the request connection state s is serving.
OwnPrompt(s) == Get(s.req.obj, "prompt", <<>>)

OwnFragment(s, i) ==
  IF backend = "echo" THEN <<OwnPrompt(s)[i + 1]>>
  ELSE NativeFragment(OwnPrompt(s), i)

OwnFragments(s, n) == [j \in 1..n |-> OwnFragment(s, j - 1)]

\* C11: a connection that is streaming sees the data of its own call only:
\* its i-th token message carries index i-1 and the fragment its own
\* prompt yields there, the chunks waiting in its queue are fragments of
\* its own prompt, and its completion's prompt and output are built from
\* its own request and its own fragments, whatever the other connection is
\* streaming at the same time.
C11_Isolation ==
  \A c \in Conns :
    LET s == conn[c]
    IN  Streaming(s) /\ s.pc # "closed" =>
          /\ s.tokens = OwnFragments(s, Len(s.tokens))
          /\ \A i \in 1..Len(s.resp) :
               /\ s.resp[i].type = "token" =>
                    s.resp[i] = TokenMsg(i - 1, OwnFragment(s, i - 1))
               /\ s.resp[i].type = "completion" =>
                    /\ s.resp[i].result.prompt = OwnPrompt(s)
                    /\ s.resp[i].result.output = Join(OwnFragments(s, i - 1))
          /\ backend = "llama" =>
               \A i \in 1..Len(queue[c]) :
                 ~queue[c][i].end =>
                   queue[c][i].token = NativeFragment(OwnPrompt(s), queue[c][i].index)

\* C11 witness: both connections stream natively, for different prompts,
\* and each has written a token while the other's call is under way.
C11_Witness ==
  /\ backend = "llama"
  /\ OwnPrompt(conn[1]) # OwnPrompt(conn[2])
  /\ \A c \in Conns :
       /\ Streaming(conn[c])
       /\ conn[c].pc \in {"drain", "await_chunk"}
       /\ conn[c].resp # <<>>
       /\ conn[c].resp[1].type = "token"
       /\ Last(conn[c].resp).type = "token"

\* C12: however the start() calls of the tasks follow or overlap one
\* another, at most one listening server is made, no call raises, and every
\* call that has returned has returned that one server.
C12_StartIdempotent ==
  /\ listener.created <= 1
  /\ \A k \in Starters :
       /\ listener.task[k].pc # "raised"
       /\ listener.task[k].pc = "done" =>
            /\ listener.task[k].ret = 1
            /\ listener.task[k].ret = listener.server

\* C13: the construction goes through for every configuration; the backend
\* it resolves is the native one exactly when the requested name is llama,
\* the runtime is there and the model path exists, and the echo backend in
\* every other case; the model is named after the artifact's file for the
\* native backend and "echo" otherwise.
C13_Resolution ==
  /\ ~config.done => ENABLED Construct
  /\ config.done /\ config # NoConfig =>
       /\ backend \in {"llama", "echo"}
       /\ backend = "llama" <=>
            /\ requested_backend(config) = "llama"
            /\ config.runtime
            /\ config.exists
       /\ model_name = IF backend = "llama" THEN resolved_model(config) ELSE "echo"

\* C13 witness: llama is asked for and the runtime is there, but the model
\* path is missing, and the manager came up with the echo backend.
C13_Witness ==
  /\ config.done
  /\ config.backend = "llama"
  /\ config.runtime
  /\ ~config.exists
  /\ backend = "echo"
  /\ model_name = "echo"

\* A value built of JSON's own types: null, booleans, numbers, strings,
\* lists, and dicts whose keys are strings.
RECURSIVE JsonShaped(_)
JsonShaped(x) ==
  CASE x.t = "tuple" -> FALSE
    [] x.t = "list" -> \A i \in DOMAIN x.kids : JsonShaped(x.kids[i])
    [] x.t = "dict" ->
         \A i \in DOMAIN x.kids :
           x.kids[i].kids[1].t = "str" /\ JsonShaped(x.kids[i].kids[2])
    [] OTHER -> TRUE

\* C14 as stated: every mapping the encoder accepts, keys that are not
\* strings included, comes back from decode_message equal to what was
\* given to encode_message.
C14_RoundTrip == codec.step = 2 => codec.decoded = codec.payload

\* C14: a mapping whose keys are strings and whose values are JSON values
\* (nested lists and string-keyed mappings included) comes back from
\* decode_message equal to what was given to encode_message.
C14_JsonRoundTrip ==
  codec.step = 2 /\ JsonShaped(codec.payload) => codec.decoded = codec.payload

\* C14 witness: a mapping with a nested, non-empty mapping as a value has
\* made the round trip.
C14_Witness ==
  /\ codec.step = 2
  /\ JsonShaped(codec.payload)
  /\ codec.payload.kids # <<>>
  /\ codec.payload.kids[1].kids[2].t = "dict"
  /\ codec.payload.kids[1].kids[2].kids # <<>>
  /\ codec.decoded = codec.payload

\* A request has been read on the connection and is not answered yet.
InFlight(s) ==
  s.pc \in {"drain", "echo_generate", "echo_stream", "await_gen", "await_chunk"}

\* C15: whatever await connection 2 is suspended at, and for however long,
\* a request read on connection 1 is answered in the end (or connection 1
\* is closed from outside or by a failure of its own).
C15_Progress ==
  InFlight(conn[1]) ~> (conn[1].pc \in {"read", "closed"})

\* C15 witness: connection 2 is suspended in a flush in the middle of its
\* stream while connection 1 has had a request answered and is reading.
C15_Witness ==
  /\ conn[2].pc = "drain"
  /\ Streaming(conn[2])
  /\ Last(conn[2].resp).type = "token"
  /\ conn[1].nreq >= 1
  /\ conn[1].pc = "read"

\* C16: a task cancelled at one of its awaits ends as cancelled: not by a
\* normal return, not through the logged-exception path; its writer is
\* closed, and from then on it reads no request and writes nothing.
C16_CancelPropagates ==
  /\ [](\A c \in Conns :
          conn[c].killed =>
            /\ conn[c].pc = "closed"
            /\ conn[c].exit = "cancelled"
            /\ conn[c].closes = 1)
  /\ [][\A c \in Conns : conn[c].killed => conn'[c] = conn[c]]_vars

\* C16 witness: a task was cancelled while serving a completion.
C16_Witness ==
  \E c \in Conns :
    /\ conn[c].killed
    /\ conn[c].outcome = "completion"
    /\ conn[c].exit = "cancelled"

\* C17: when the producer of a native stream has raised, the connection
\* consuming that stream does not see it end normally: no completion
\* message is written for the request.
C17_ProducerFailureSurfaces ==
  \A c \in Conns :
    /\ worker[c].kind = "stream"
    /\ worker[c].err
    /\ Streaming(conn[c])
    /\ conn[c].pc # "closed"
    => \A i \in 1..Len(conn[c].resp) : conn[c].resp[i].type # "completion"

\* C18: in a native stream's queue the sentinel comes after every chunk;
\* a consumer waiting on a worker that is over has the sentinel in its
\* queue, whichever way the worker ended; and a consumer waiting for an
\* item always gets out of its stream: the request is answered or the
\* connection closed.
C18_StreamTerminates ==
  /\ [](\A c \in Conns :
          /\ \A i \in 1..Len(queue[c]) : queue[c][i].end => i = Len(queue[c])
          /\ (conn[c].pc = "await_chunk" /\ worker[c].pc = "done") =>
               (queue[c] # <<>> /\ Last(queue[c]).end))
  /\ \A c \in Conns :
       (conn[c].pc = "await_chunk") ~> (conn[c].pc \in {"read", "closed"})

\* C18 witness: a native stream ran to its end: the worker is over, the
\* queue is empty, and the consumer wrote the completion after its tokens.
C18_Witness ==
  \E c \in Conns :
    /\ backend = "llama"
    /\ Streaming(conn[c])
    /\ worker[c].pc = "done"
    /\ ~worker[c].err
    /\ queue[c] = <<>>
    /\ Len(conn[c].resp) = MaxTokens + 1
    /\ Last(conn[c].resp).type = "completion"

\* The consumer side of connection c's native stream is over: the request
\* was answered, or the connection was closed in the middle of it.
ConsumerEnded(c) ==
  /\ worker[c].kind = "stream"
  /\ conn[c].pc = "closed" \/ Answered(conn[c])

\* C19: once the consumer side of a native stream is over, its worker
\* produces nothing more and pushes nothing more on the queue.
C19_WorkerScoped ==
  [][\A c \in Conns :
       ConsumerEnded(c) =>
         /\ queue'[c] = queue[c]
         /\ worker'[c].kind = "stream" => worker'[c].idx = worker[c].idx]_vars

\* C20: a handler is out of its loop exactly when it left by end of input,
\* by an unhandled exception or by cancellation, and then its writer has
\* been closed exactly once (never before); a request that raised leaves
\* the connection closed by the exception path; a closed connection never
\* changes again, so nothing is written after the close and it never
\* reads again; and the step that closes one connection for an exception
\* leaves the listener and every other connection as they were.
C20_ClosedOnce ==
  /\ [](\A c \in Conns :
          /\ conn[c].closes = IF conn[c].pc = "closed" THEN 1 ELSE 0
          /\ conn[c].pc = "closed" <=> conn[c].exit \in {"eof", "exception", "cancelled"}
          /\ conn[c].pc # "closed" => conn[c].exit = "none"
          /\ conn[c].outcome = "AttributeError" =>
               conn[c].pc = "closed" /\ conn[c].exit = "exception"
          /\ conn[c].pc = "closed" => conn[c].resp = <<>> /\ conn[c].wbuf = 0)
  /\ [][\A c \in Conns : conn[c].pc = "closed" => conn'[c] = conn[c]]_vars
  /\ [][\A c \in Conns :
          (conn[c].pc # "closed" /\ conn'[c].pc = "closed"
             /\ conn'[c].exit = "exception") =>
            /\ listener' = listener
            /\ \A d \in Conns \ {c} : conn'[d] = conn[d]]_vars

\* C20 witness: connection 1 is closed for an unhandled exception, the
\* listener is up, and connection 2 is in the middle of answering a request.
C20_Witness ==
  /\ conn[1].pc = "closed"
  /\ conn[1].exit = "exception"
  /\ conn[1].closes = 1
  /\ listener.server # 0
  /\ conn[2].nreq = 1
  /\ conn[2].pc = "drain"
  /\ conn[2].resp # <<>>

====
